---- MODULE Spec2Model ----
(***************************************************************************)
(* Model of the Lox scanner of src/main.rs (struct Scanner and main).      *)
(*                                                                         *)
(* A source text is a sequence of code points.  The scanner indexes it by  *)
(* extended grapheme cluster (graphemes(true)) in advance, peek,           *)
(* is_compound_token, substr and add_token, and by code point              *)
(* (chars().count()) in eof.  Both views are modelled.  Indices of the     *)
(* code are 0-based; TLA+ sequences are 1-based, so nth(k) is G[k + 1].    *)
(***************************************************************************)
EXTENDS Integers, Sequences, FiniteSets, TLC

\* Longest source text explored over the whole alphabet, in code points.
MaxLen == 3

\* Longest source text explored over the core alphabet, in code points.
MaxLongLen == 4

\* U+0301 COMBINING ACUTE ACCENT: Grapheme_Cluster_Break = Extend.
Mark == "U+0301"

\* Code points with Grapheme_Cluster_Break = Control (LF and CR have their own
\* classes but break the same way, except CR x LF).
Control == {"\t", "\n", "\r"}

\* The code points a source text is drawn from: one plain punctuation mark, the
\* four operator starts, slash, quote, the whitespace of TokenType::parse, an
\* unrecognized ASCII character and a combining mark.
Alphabet == {"(", "=", "!", "<", ">", "/", "\"", " ", "\t", "\r", "\n", "@", Mark}

\* The code points that longer texts are drawn from: those that open and
\* close strings and comments, break lines and clusters, or are unrecognized.
CoreAlphabet == {"(", "=", "/", "\"", "\r", "\n", "@", Mark}

Sources ==
    UNION ({[1..n -> Alphabet] : n \in 0..MaxLen}
           \cup {[1..n -> CoreAlphabet] : n \in 0..MaxLongLen})

VARIABLES source, tokens, errors, start, current, line, has_errors, pc,
          exit_code

vars ==
    <<source, tokens, errors, start, current, line, has_errors, pc, exit_code>>

----------------------------------------------------------------------------
(* Iterator helpers of the standard library, as the code uses them. *)

skip(s, n) == SubSeq(s, n + 1, Len(s))

take(s, n) == SubSeq(s, 1, IF n < Len(s) THEN n ELSE Len(s))

\* collect() of an iterator of &str into a String: concatenation.
RECURSIVE collect(_)
collect(gs) == IF gs = <<>> THEN <<>> ELSE Head(gs) \o collect(Tail(gs))

\* Number of leading Extend code points of s.
RECURSIVE LeadingMarks(_)
LeadingMarks(s) ==
    IF s # <<>> /\ Head(s) = Mark THEN 1 + LeadingMarks(Tail(s)) ELSE 0

\* Length in code points of the first extended grapheme cluster of a
\* non-empty text: CR LF is one cluster (GB3), a control never extends
\* (GB4, GB5), anything else takes the Extend code points after it (GB9).
ClusterLen(s) ==
    IF Head(s) = "\r"
    THEN IF Len(s) >= 2 /\ s[2] = "\n" THEN 2 ELSE 1
    ELSE IF Head(s) \in Control THEN 1
    ELSE 1 + LeadingMarks(Tail(s))

\* source.graphemes(true): the text cut into extended grapheme clusters, each a
\* sequence of code points.
RECURSIVE graphemes(_)
graphemes(s) ==
    IF s = <<>> THEN <<>>
    ELSE <<take(s, ClusterLen(s))>> \o graphemes(skip(s, ClusterLen(s)))

\* source.chars().count()
chars_count(s) == Len(s)

----------------------------------------------------------------------------
(* Data model. *)

None == [some |-> FALSE, value |-> <<>>]

Some(v) == [some |-> TRUE, value |-> v]

Token(ty, lit, text, ln) ==
    [token_type |-> ty, literal |-> lit, text |-> text, line |-> ln]

Error(ty, payload, ln) == [error_type |-> ty, payload |-> payload, line |-> ln]

\* TokenType::parse on one grapheme; "NONE" is the None of the whitespace arm.
parse(c) ==
    CASE c = <<"(">> -> "LEFT_PAREN"
      [] c = <<"/">> -> "SLASH"
      [] c = <<"=">> -> "EQUAL"
      [] c = <<"=", "=">> -> "EQUAL_EQUAL"
      [] c = <<"!">> -> "BANG"
      [] c = <<"!", "=">> -> "BANG_EQUAL"
      [] c = <<"<">> -> "LESS"
      [] c = <<"<", "=">> -> "LESS_EQUAL"
      [] c = <<">">> -> "GREATER"
      [] c = <<">", "=">> -> "GREATER_EQUAL"
      [] c \in {<<"\r">>, <<"\t">>, <<" ">>} -> "NONE"
      [] c = <<"\n">> -> "LINE_BREAK"
      [] c = <<"\"">> -> "STRING"
      [] c = <<>> -> "EOF"
      [] OTHER -> "ERROR"

\* TOKENS: the display text of each kind, as code points.
TOKENS ==
    [LEFT_PAREN |-> <<"(">>, RIGHT_PAREN |-> <<")">>, LEFT_BRACE |-> <<"{">>,
     RIGHT_BRACE |-> <<"}">>, STAR |-> <<"*">>, DOT |-> <<".">>,
     COMMA |-> <<",">>, PLUS |-> <<"+">>, MINUS |-> <<"-">>,
     SEMICOLON |-> <<";">>, SLASH |-> <<"/">>, EQUAL |-> <<"=">>,
     EQUAL_EQUAL |-> <<"=", "=">>, BANG |-> <<"!">>,
     BANG_EQUAL |-> <<"!", "=">>, LESS |-> <<"<">>,
     LESS_EQUAL |-> <<"<", "=">>, GREATER |-> <<">">>,
     GREATER_EQUAL |-> <<">", "=">>, LINE_BREAK |-> <<>>, EOF |-> <<>>]

\* The arms below with the kinds of two of them exchanged.
Compound_swapped(ty) ==
    CASE ty = "BANG" -> "EQUAL_EQUAL"
      [] ty = "EQUAL" -> "BANG_EQUAL"
      [] ty = "GREATER" -> "GREATER_EQUAL"
      [] ty = "LESS" -> "LESS_EQUAL"

\* The two-character variant the scanner emits for an operator start.
Compound(ty) ==
    CASE ty = "BANG" -> "BANG_EQUAL"
      [] ty = "EQUAL" -> "EQUAL_EQUAL"
      [] ty = "GREATER" -> "GREATER_EQUAL"
      [] ty = "LESS" -> "LESS_EQUAL"

----------------------------------------------------------------------------
(* The scanner's methods, as functions of the scanner record.  A record    *)
(* with panicked = TRUE is a scan aborted by unwrap() on None.             *)

Self ==
    [source |-> source, tokens |-> tokens, errors |-> errors, start |-> start,
     current |-> current, line |-> line, has_errors |-> has_errors,
     panicked |-> FALSE]

eof(s) == s.current = chars_count(s.source)

\* graphemes(true).nth(k) is Some exactly when k is below the grapheme count.
has_nth(s, k) == k < Len(graphemes(s.source))

nth(s, k) == graphemes(s.source)[k + 1]

panic(s) == [s EXCEPT !.panicked = TRUE]

\* substr taking one grapheme too many.
substr_inclusive(s, from, to) ==
    collect(take(skip(graphemes(s.source), from), to - from + 1))

substr(s, from, to) == collect(take(skip(graphemes(s.source), from), to - from))

\* add_error that forgets the flag.
add_error_unflagged(s, ty, payload) ==
    [s EXCEPT !.errors = Append(@, Error(ty, payload, s.line))]

add_error(s, ty, payload) ==
    [s EXCEPT !.has_errors = TRUE,
              !.errors = Append(@, Error(ty, payload, s.line))]

\* add_token without the special case of the end-of-input token.
add_token_sliced_eof(s, ty, lit) ==
    [s EXCEPT !.tokens =
        Append(@, Token(ty, lit,
                        collect(take(skip(graphemes(s.source), s.start),
                                     s.current - s.start)), 1))]

\* add_token slicing from the first grapheme instead of the bookmark.
add_token_unskipped(s, ty, lit) ==
    IF ty = "EOF"
    THEN [s EXCEPT !.tokens = Append(@, Token(ty, lit, <<>>, 1))]
    ELSE [s EXCEPT !.tokens =
             Append(@, Token(ty, lit,
                             collect(take(graphemes(s.source),
                                          s.current - s.start)), 1))]

add_token(s, ty, lit) ==
    IF ty = "EOF"
    THEN [s EXCEPT !.tokens = Append(@, Token(ty, lit, <<>>, 1))]
    ELSE [s EXCEPT !.tokens =
             Append(@, Token(ty, lit,
                             collect(take(skip(graphemes(s.source), s.start),
                                          s.current - s.start)), 1))]

\* is_compound_token stepping back when the next grapheme does not match.
is_compound_token_backtrack(s, c) ==
    IF eof(s) THEN [self |-> s, ret |-> FALSE]
    ELSE IF ~has_nth(s, s.current) THEN [self |-> panic(s), ret |-> FALSE]
    ELSE IF nth(s, s.current) = <<c>>
         THEN [self |-> [s EXCEPT !.current = @ + 1], ret |-> TRUE]
         ELSE [self |-> [s EXCEPT !.current = @ - 1], ret |-> FALSE]

\* is_compound_token: [self, ret]; the unwrap panics when eof() is false but
\* no grapheme is left.
is_compound_token(s, c) ==
    IF eof(s) THEN [self |-> s, ret |-> FALSE]
    ELSE IF ~has_nth(s, s.current) THEN [self |-> panic(s), ret |-> FALSE]
    ELSE IF nth(s, s.current) = <<c>>
         THEN [self |-> [s EXCEPT !.current = @ + 1], ret |-> TRUE]
         ELSE [self |-> s, ret |-> FALSE]

\* advance: [self, ret]; the cursor moves first, then nth(current - 1) is
\* unwrapped.
advance(s) ==
    LET t == [s EXCEPT !.current = @ + 1]
    IN  IF has_nth(t, t.current - 1)
        THEN [self |-> t, ret |-> nth(t, t.current - 1)]
        ELSE [self |-> panic(t), ret |-> <<>>]

\* peek returns nth(current) unwrapped; peek_panics says the unwrap fails.
peek_panics(s) == ~has_nth(s, s.current)

peek(s) == nth(s, s.current)

\* The loop below with a body that never runs.
skip_none(s, stop) == s

\* The loop below, also moving past the grapheme that stops it.
RECURSIVE skip_past(_, _)
skip_past(s, stop) ==
    IF eof(s) THEN s
    ELSE IF peek_panics(s) THEN panic(s)
    ELSE IF peek(s) = <<stop>> THEN [s EXCEPT !.current = @ + 1]
    ELSE skip_past([s EXCEPT !.current = @ + 1], stop)

\* while !self.eof() && self.peek() != stop { self.current += 1 }
RECURSIVE skip_until(_, _)
skip_until(s, stop) ==
    IF eof(s) THEN s
    ELSE IF peek_panics(s) THEN panic(s)
    ELSE IF peek(s) = <<stop>> THEN s
    ELSE skip_until([s EXCEPT !.current = @ + 1], stop)

operator_arm(s, lexeme) ==
    LET r == is_compound_token(s, "=")
    IN  IF r.self.panicked THEN r.self
        ELSE IF r.ret THEN add_token(r.self, Compound(lexeme), None)
        ELSE add_token(r.self, lexeme, None)

slash_arm(s, lexeme) ==
    LET r == is_compound_token(s, "/")
    IN  IF r.self.panicked THEN r.self
        ELSE IF r.ret THEN skip_until(r.self, "\n")
        ELSE add_token(r.self, lexeme, None)

string_arm(s, lexeme) ==
    LET t == skip_until(s, "\"")
    IN  IF t.panicked THEN t
        ELSE IF ~eof(t)
        THEN LET u == [t EXCEPT !.current = @ + 1]
             IN  add_token(u, lexeme, Some(substr(u, u.start + 1, u.current - 1)))
        ELSE add_error(t, "UnterminatedString", substr(t, t.start, t.current))

\* The loop body with the bookmark taken after advance instead of before.
scan_iteration_bookmark_after(s) ==
    LET a == advance(s)
        s1 == [a.self EXCEPT !.start = a.self.current]
        c == a.ret
        lexeme == parse(c)
    IN  IF s1.panicked THEN s1
        ELSE CASE lexeme = "NONE" -> s1
               [] lexeme \in {"BANG", "EQUAL", "GREATER", "LESS"} ->
                    operator_arm(s1, lexeme)
               [] lexeme = "ERROR" -> add_error(s1, "UnexpectedCharacter", c)
               [] lexeme = "LINE_BREAK" -> [s1 EXCEPT !.line = @ + 1]
               [] lexeme = "SLASH" -> slash_arm(s1, lexeme)
               [] lexeme = "STRING" -> string_arm(s1, lexeme)
               [] OTHER -> add_token(s1, lexeme, None)

\* One pass through the body of the while loop of scan_tokens.
scan_iteration(s) ==
    LET a == advance([s EXCEPT !.start = s.current])
        s1 == a.self
        c == a.ret
        lexeme == parse(c)
    IN  IF s1.panicked THEN s1
        ELSE CASE lexeme = "NONE" -> s1
               [] lexeme \in {"BANG", "EQUAL", "GREATER", "LESS"} ->
                    operator_arm(s1, lexeme)
               [] lexeme = "ERROR" -> add_error(s1, "UnexpectedCharacter", c)
               [] lexeme = "LINE_BREAK" -> [s1 EXCEPT !.line = @ + 1]
               [] lexeme = "SLASH" -> slash_arm(s1, lexeme)
               [] lexeme = "STRING" -> string_arm(s1, lexeme)
               [] OTHER -> add_token(s1, lexeme, None)

----------------------------------------------------------------------------
(* The state machine. *)

\* Scanner::new on any source text read by main.
Init ==
    /\ source \in Sources
    /\ tokens = <<>>
    /\ errors = <<>>
    /\ start = 0
    /\ current = 0
    /\ line = 1
    /\ has_errors = FALSE
    /\ pc = "scanning"
    /\ exit_code = "running"

Store(s, next_pc) ==
    /\ tokens' = s.tokens
    /\ errors' = s.errors
    /\ start' = s.start
    /\ current' = s.current
    /\ line' = s.line
    /\ has_errors' = s.has_errors
    /\ pc' = next_pc
    /\ UNCHANGED <<source, exit_code>>

\* while !self.eof() { ... }: one iteration.
ScanIteration ==
    /\ pc = "scanning"
    /\ ~eof(Self)
    /\ LET s == scan_iteration(Self)
       IN  Store(s, IF s.panicked THEN "panicked" ELSE "scanning")

\* The loop exits and the end-of-input token is added.
ScanExit ==
    /\ pc = "scanning"
    /\ eof(Self)
    /\ Store(add_token(Self, "EOF", None), "done")

\* Exit status of a process whose main thread panicked (Rust runtime).
PanicExitCode == 101

\* exit(65) of main when the scanner has errors.
ErrorExitCode == 65

\* main after scan_tokens returned: the lists are printed, then exit(65) if
\* scanner.has_errors, else main returns and the process exits with 0.
MainExit ==
    /\ pc = "done"
    /\ pc' = "exited"
    /\ exit_code' = IF has_errors THEN ErrorExitCode ELSE 0
    /\ UNCHANGED <<source, tokens, errors, start, current, line, has_errors>>

\* The panic of an unwrap() in scan_tokens unwinds main: the process ends
\* with the panic exit status and prints nothing.
MainAbort ==
    /\ pc = "panicked"
    /\ pc' = "aborted"
    /\ exit_code' = PanicExitCode
    /\ UNCHANGED <<source, tokens, errors, start, current, line, has_errors>>

Next == ScanIteration \/ ScanExit \/ MainExit \/ MainAbort

Spec == Init /\ [][Next]_vars

----------------------------------------------------------------------------
(* Vocabulary of the properties. *)

G == graphemes(source)

Terminated == pc \in {"done", "panicked"}

EofToken == Token("EOF", None, <<>>, 1)

\* Number of line-feed code points among the first n code points of s.
LineFeeds(s, n) == Cardinality({i \in 1..n : s[i] = "\n"})

Whitespace == {" ", "\t", "\r", "\n"}

WhitespaceOnly(s) == \A i \in 1..Len(s) : s[i] \in Whitespace

Operators == {"BANG", "EQUAL", "GREATER", "LESS"}

\* Index of the first grapheme equal to the code point c at or after index i
\* of gs, or Len(gs) + 1 when there is none.
RECURSIVE FirstAt(_, _, _)
FirstAt(gs, i, c) ==
    IF i > Len(gs) THEN Len(gs) + 1
    ELSE IF gs[i] = <<c>> THEN i
    ELSE FirstAt(gs, i + 1, c)

Event(kind, ty, from, to) == [kind |-> kind, type |-> ty, from |-> from, to |-> to]

\* What the text says of a grapheme sequence, read from grapheme i on: the
\* tokens, unrecognized characters and unterminated string, in source order,
\* each with the graphemes from..to it covers.  Comments, whitespace and line
\* breaks give nothing; nothing inside a string or a comment is classified.
RECURSIVE Expected(_, _)
Expected(gs, i) ==
    IF i > Len(gs) THEN <<>>
    ELSE LET ty == parse(gs[i])
             follows(c) == i < Len(gs) /\ gs[i + 1] = <<c>>
         IN  CASE ty \in {"NONE", "LINE_BREAK"} -> Expected(gs, i + 1)
               [] ty \in Operators ->
                    IF follows("=")
                    THEN <<Event("token", Compound(ty), i, i + 1)>>
                             \o Expected(gs, i + 2)
                    ELSE <<Event("token", ty, i, i)>> \o Expected(gs, i + 1)
               [] ty = "SLASH" ->
                    IF follows("/")
                    THEN Expected(gs, FirstAt(gs, i + 2, "\n"))
                    ELSE <<Event("token", ty, i, i)>> \o Expected(gs, i + 1)
               [] ty = "STRING" ->
                    LET j == FirstAt(gs, i + 1, "\"")
                    IN  IF j <= Len(gs)
                        THEN <<Event("token", ty, i, j)>> \o Expected(gs, j + 1)
                        ELSE <<Event("unterminated", ty, i, Len(gs))>>
               [] ty = "ERROR" ->
                    <<Event("unexpected", ty, i, i)>> \o Expected(gs, i + 1)
               [] OTHER -> <<Event("token", ty, i, i)>> \o Expected(gs, i + 1)

OfKind(events, kind) == SelectSeq(events, LAMBDA e : e.kind = kind)

ErrorsOfType(ty) == SelectSeq(errors, LAMBDA e : e.error_type = ty)

\* The tokens emitted by loop iterations (all but the end-of-input token).
ScannedTokens == SelectSeq(tokens, LAMBDA t : t.token_type # "EOF")

\* Source line of grapheme i of the source: 1 + the line feeds before it.
LineOf(i) == 1 + LineFeeds(source, Len(collect(take(G, i - 1))))

\* Graphemes of the source that TokenType::parse does not recognize.
Unrecognized == {i \in 1..Len(G) : parse(G[i]) = "ERROR"}

----------------------------------------------------------------------------
(* C1..C4 *)

\* C1: for every source text scan_tokens terminates normally; no step aborts
\* the scan, i.e. advance, peek and is_compound_token never unwrap a missing
\* grapheme.
C1_ScanNeverAborts == pc # "panicked"

\* C2: after scan_tokens the token list holds exactly one end-of-input token,
\* it is the last element, and its lexeme is empty.
C2_EofTokenLast ==
    pc = "done" =>
        /\ Len(tokens) >= 1
        /\ tokens[Len(tokens)].token_type = "EOF"
        /\ tokens[Len(tokens)].text = <<>>
        /\ \A i \in 1..(Len(tokens) - 1) : tokens[i].token_type # "EOF"

\* A finished scan of a text that produced tokens before the end-of-input one,
\* with the bookmark left behind the cursor.
C2_Witness ==
    /\ pc = "done"
    /\ Len(tokens) >= 3
    /\ start < current

\* C3: a token emitted by a loop iteration records as its line the value the
\* line counter had when the iteration bookmarked the token's start.
C3_TokenLineIsLiveLine ==
    [][(pc' = "scanning" /\ Len(tokens') = Len(tokens) + 1)
          => tokens'[Len(tokens')].line = line]_vars

\* C4: a text of spaces, tabs, carriage returns and line feeds only is scanned
\* to the end-of-input token alone, and the line counter ends at 1 + the number
\* of line feeds of the text.
C4_WhitespaceOnly ==
    (WhitespaceOnly(source) /\ Terminated) =>
        /\ pc = "done"
        /\ tokens = <<EofToken>>
        /\ line = 1 + LineFeeds(source, Len(source))

----------------------------------------------------------------------------
(* C5, C6 *)

\* C5: when the only unrecognized character of the input is one character c,
\* outside comments and strings, on source line L, the scan records exactly one
\* UnexpectedCharacter error, with payload c and line L, emits no token for c
\* and leaves has_errors true.
C5_SingleUnexpectedCharacter ==
    Terminated =>
        \A i \in Unrecognized :
            (Unrecognized = {i}
             /\ OfKind(Expected(G, 1), "unexpected") # <<>>) =>
                /\ ErrorsOfType("UnexpectedCharacter")
                       = <<Error("UnexpectedCharacter", G[i], LineOf(i))>>
                /\ \A k \in 1..Len(tokens) : tokens[k].text # G[i]
                /\ has_errors

\* C6: an input with k unrecognized characters outside comments and strings
\* yields exactly k UnexpectedCharacter errors, in source order, and every
\* recognizable token, also those after an error, is emitted.
C6_ErrorsDoNotStopScan ==
    LET ev == Expected(G, 1)
        unexpected == OfKind(ev, "unexpected")
        expected_tokens == OfKind(ev, "token")
        reported == ErrorsOfType("UnexpectedCharacter")
    IN  Terminated =>
            /\ Len(reported) = Len(unexpected)
            /\ \A k \in 1..Len(reported) :
                   reported[k].payload = G[unexpected[k].from]
            /\ Len(ScannedTokens) = Len(expected_tokens)
            /\ \A k \in 1..Len(ScannedTokens) :
                   ScannedTokens[k].token_type = expected_tokens[k].type

----------------------------------------------------------------------------
(* C7..C10 *)

\* The loop is about to bookmark and consume grapheme current + 1 (1-based).
AtGrapheme == pc = "scanning" /\ current < Len(G)

\* tokens' is tokens with one token of this kind and lexeme appended.
Emits(ty, text) ==
    /\ Len(tokens') = Len(tokens) + 1
    /\ SubSeq(tokens', 1, Len(tokens)) = tokens
    /\ tokens'[Len(tokens')].token_type = ty
    /\ tokens'[Len(tokens')].text = text

\* C7: a token started at '=', '!', '<' or '>' followed by '=' consumes both
\* and emits exactly the two-character token; followed by anything else or by
\* the end of the input it emits exactly the one-character token and consumes
\* nothing more.
C7_OperatorTokens ==
    [][(AtGrapheme /\ parse(G[current + 1]) \in Operators) =>
          LET ty == parse(G[current + 1])
              compound == current + 2 <= Len(G) /\ G[current + 2] = <<"=">>
          IN  IF compound
              THEN /\ Emits(Compound(ty), G[current + 1] \o <<"=">>)
                   /\ current' = current + 2
              ELSE /\ Emits(ty, G[current + 1])
                   /\ current' = current + 1]_vars

\* The loop is about to consume a '/' that is followed by a '/'.
AtComment ==
    /\ AtGrapheme
    /\ current + 2 <= Len(G)
    /\ G[current + 1] = <<"/">>
    /\ G[current + 2] = <<"/">>

\* The last iteration bookmarked a '//' and ran the comment loop.
AfterComment ==
    /\ pc = "scanning"
    /\ start + 2 <= current
    /\ G[start + 1] = <<"/">>
    /\ G[start + 2] = <<"/">>

AtClosedString ==
    /\ AtGrapheme
    /\ G[current + 1] = <<"\"">>
    /\ FirstAt(G, current + 2, "\"") <= Len(G)

\* C9: a string literal with a closing quote gives exactly one STRING token;
\* its lexeme is the quoted text with both quotes, its literal the graphemes
\* strictly between them; the cursor ends just past the closing quote and no
\* error is recorded.
C9_StringLiteral ==
    [][AtClosedString =>
          LET j == FirstAt(G, current + 2, "\"")
          IN  /\ Emits("STRING", collect(SubSeq(G, current + 1, j)))
              /\ tokens'[Len(tokens')].literal
                     = Some(collect(SubSeq(G, current + 2, j - 1)))
              /\ current' = j
              /\ errors' = errors
              /\ pc' = "scanning"]_vars

\* A string literal with a non-empty value has just been emitted.
C9_Witness ==
    /\ pc = "scanning"
    /\ tokens # <<>>
    /\ tokens[Len(tokens)].token_type = "STRING"
    /\ Len(tokens[Len(tokens)].literal.value) >= 2
    /\ current = Len(G)
    /\ G[current] = <<"\"">>
    /\ errors = <<>>

\* C10: when an opening quote is never closed, the scan records exactly one
\* UnterminatedString error, tagged with the source line of that quote, and
\* emits no STRING token for it and no token after it but the end-of-input one.
C10_UnterminatedString ==
    LET ev == Expected(G, 1)
        open == OfKind(ev, "unterminated")
        reported == ErrorsOfType("UnterminatedString")
    IN  (Terminated /\ open # <<>>) =>
            /\ Len(reported) = 1
            /\ reported[1].line = LineOf(open[1].from)
            /\ Len(ScannedTokens) = Len(OfKind(ev, "token"))
            /\ \A k \in 1..Len(ScannedTokens) :
                   ScannedTokens[k].token_type = OfKind(ev, "token")[k].type

----------------------------------------------------------------------------
(* C11, C12 *)

\* C11: in every reachable state has_errors is true exactly when the error
\* list is non-empty, and once has_errors is true it stays true.
C11_HasErrorsFlag ==
    /\ [](has_errors <=> errors # <<>>)
    /\ [][has_errors => has_errors']_vars

\* Two errors have been recorded and the scan went on to its end.
C11_Witness ==
    /\ pc = "done"
    /\ Len(errors) >= 2
    /\ has_errors

\* C12: the tokenize command ends with exit code 65 if at least one scan
\* error was recorded and with 0 otherwise, and with no other exit code.
C12_ExitCode ==
    pc \in {"exited", "aborted"} =>
        exit_code = IF errors # <<>> THEN ErrorExitCode ELSE 0

----------------------------------------------------------------------------
(* C13, C14 *)

\* Number of line-feed graphemes among the first n graphemes of the source.
LineFeedsPassed(n) == Cardinality({i \in 1..n : G[i] = <<"\n">>})

\* C13: at every boundary of a main-loop iteration the line counter is 1 + the
\* number of line feeds the cursor has moved past, wherever they occur, also
\* inside string literals and after comments; the counter never decreases.
C13_LineCounter ==
    /\ [](pc \in {"scanning", "done"} => line = 1 + LineFeedsPassed(current))
    /\ [][line' >= line]_vars

\* C14: eof() is true exactly when the cursor equals the number of extended
\* grapheme clusters of the source, also when a cluster has several code
\* points.
C14_EofIsGraphemeCount ==
    pc = "scanning" => (eof(Self) <=> current = Len(G))

----------------------------------------------------------------------------
(* C15, C16 *)

\* A step has appended one token.
TokenEmitted == Len(tokens') = Len(tokens) + 1

\* The graphemes from the bookmark to the cursor, as the step leaves them;
\* add_token is the last statement of every arm that calls it.
SliceAtEmission == collect(SubSeq(G, start' + 1, current'))

\* C15 as stated: every emitted token's lexeme is the run of graphemes from
\* the bookmark (inclusive) to the cursor (exclusive) at the moment add_token
\* is called.
C15_LexemeIsSlice ==
    [][TokenEmitted => tokens'[Len(tokens')].text = SliceAtEmission]_vars

\* C15 amended: every emitted token other than the end-of-input token has as
\* lexeme the run of graphemes from the bookmark to the cursor at the moment
\* add_token is called; the end-of-input token's lexeme is the empty string,
\* whatever the bookmark and the cursor are.
C15_LexemeIsSliceExceptEof ==
    [][TokenEmitted =>
          IF tokens'[Len(tokens')].token_type = "EOF"
          THEN tokens'[Len(tokens')].text = <<>>
          ELSE tokens'[Len(tokens')].text = SliceAtEmission]_vars

\* A two-character token that does not start at the first grapheme has just
\* been emitted.
C15_Witness ==
    /\ pc = "scanning"
    /\ tokens # <<>>
    /\ start >= 1
    /\ current = start + 2
    /\ tokens[Len(tokens)].token_type \in
           {"BANG_EQUAL", "EQUAL_EQUAL", "GREATER_EQUAL", "LESS_EQUAL"}
    /\ tokens[Len(tokens)].text = collect(SubSeq(G, start + 1, current))

\* C16 as stated: when the end-of-input token is emitted the bookmark and the
\* cursor coincide.
C16_BookmarkAtCursorAtEof == pc = "done" => start = current

\* C16 amended: when the end-of-input token is emitted the bookmark is at or
\* before the cursor and coincides with it only for the empty input (it still
\* marks the start of the last loop iteration); the lexeme of the token is
\* empty all the same.
C16_BookmarkLagsAtEof ==
    pc = "done" =>
        /\ start <= current
        /\ start = current <=> source = <<>>
        /\ tokens[Len(tokens)].text = <<>>

\* The end-of-input token was emitted with the bookmark two graphemes behind
\* the cursor.
C16_Witness ==
    /\ pc = "done"
    /\ current >= start + 2
    /\ tokens[Len(tokens)] = EofToken

----------------------------------------------------------------------------
(* C17, C18, C19 *)

\* The scanner with its cursor at grapheme index k.
CursorAt(k) == [Self EXCEPT !.current = k]

\* C17: the cursor never moves backward: advance, is_compound_token, the
\* comment loop and the string loop leave current unchanged or increase it,
\* every main-loop iteration increases it by at least one, and
\* start <= current in every reachable state.  The four operations read only
\* the source and the cursor, so they are applied at every cursor position of
\* a source once, in the first state of its scan.
C17_CursorNeverMovesBack ==
    /\ [](start <= current)
    /\ [](current = 0 => \A k \in 0..Len(G) :
             /\ advance(CursorAt(k)).self.current >= k
             /\ is_compound_token(CursorAt(k), "=").self.current >= k
             /\ is_compound_token(CursorAt(k), "/").self.current >= k
             /\ skip_until(CursorAt(k), "\n").current >= k
             /\ skip_until(CursorAt(k), "\"").current >= k)
    /\ [][/\ current' >= current
          /\ (pc = "scanning" /\ pc' # "done") => current' >= current + 1]_vars

\* An iteration that did not start at the first grapheme has moved the cursor
\* by three graphemes.
C17_Witness ==
    /\ pc = "scanning"
    /\ start >= 1
    /\ current = start + 3

\* C18: no emitted token has kind LINE_BREAK or ERROR, and every emitted
\* token of a kind other than STRING and EOF has the display text of its kind
\* in TOKENS as lexeme and no literal value.
C18_TokenKindsAndLexemes ==
    \A k \in 1..Len(tokens) :
        /\ tokens[k].token_type \notin {"LINE_BREAK", "ERROR"}
        /\ tokens[k].token_type \notin {"STRING", "EOF"} =>
               /\ tokens[k].token_type \in DOMAIN TOKENS
               /\ tokens[k].text = TOKENS[tokens[k].token_type]
               /\ tokens[k].literal = None

\* A two-character operator and a plain slash have been emitted.
C18_Witness ==
    /\ \E k \in 1..Len(tokens) : tokens[k].token_type = "LESS_EQUAL"
    /\ \E k \in 1..Len(tokens) : tokens[k].token_type = "SLASH"

IsPrefix(a, b) == Len(a) <= Len(b) /\ \A k \in 1..Len(a) : a[k] = b[k]

\* C19: nothing between the quotes of a string literal and nothing in a line
\* comment is classified on its own: the tokens emitted so far are, in kind and
\* lexeme, the first of those the text calls for when string and comment
\* contents are opaque, the UnexpectedCharacter errors are the first of the
\* unrecognized characters outside strings and comments, and an
\* UnterminatedString error is recorded only for a quote that opens a string
\* outside any comment.
C19_NothingInsideClassified ==
    LET ev == Expected(G, 1)
        expected_tokens == OfKind(ev, "token")
        unexpected == OfKind(ev, "unexpected")
    IN  /\ IsPrefix([k \in 1..Len(ScannedTokens) |->
                        <<ScannedTokens[k].token_type, ScannedTokens[k].text>>],
                    [k \in 1..Len(expected_tokens) |->
                        <<expected_tokens[k].type,
                          collect(SubSeq(G, expected_tokens[k].from,
                                         expected_tokens[k].to))>>])
        /\ IsPrefix([k \in 1..Len(ErrorsOfType("UnexpectedCharacter")) |->
                        ErrorsOfType("UnexpectedCharacter")[k].payload],
                    [k \in 1..Len(unexpected) |-> G[unexpected[k].from]])
        /\ Len(ErrorsOfType("UnterminatedString"))
               <= Len(OfKind(ev, "unterminated"))

\* A string literal holding '//' was scanned to one STRING token and nothing
\* else.
C19_Witness ==
    /\ pc = "done"
    /\ G = << <<"\"">>, <<"/">>, <<"/">>, <<"\"">> >>
    /\ Len(tokens) = 2
    /\ tokens[1].token_type = "STRING"
    /\ tokens[1].literal = Some(<<"/", "/">>)
    /\ errors = <<>>

====
